---- MODULE Spec2Model ----
(***************************************************************************)
(* Galaxy Runner (kivy-game-galaxy): the MainWidget game object of         *)
(* main.py with the input handlers of user_actions.py and the menu         *)
(* overlay of menu.py.                                                     *)
(*                                                                         *)
(* Numbers.  The program computes in floating point.  Here every fraction  *)
(* is an exact rational <<numerator, denominator>>, every length is an     *)
(* integer number of 1/32 pixel (Px), and a frame's dt is a rational       *)
(* number of seconds.  With the 900 x 400 window of main.py and the dt     *)
(* values of DtSet every product below is an exact integer (ExactUnits).   *)
(***************************************************************************)
EXTENDS Integers, Sequences, FiniteSets, TLC

\* ---------------------------------------------------------------- bounds
\* The row counter (score) is capped: no frame is taken that would push it
\* beyond MaxRow in Spec, beyond MaxRowGen in SpecGen.
MaxRow == 2
MaxRowGen == 9
\* At most MaxTimers delayed voice callbacks are pending at once.
MaxTimers == 2
\* The random source of Spec: a generation pass draws at most MaxTurns turns
\* (draws 1 and 2).  SpecGen bounds nothing about the draws.
MaxTurns == 1
\* Frame times, in seconds: 5/32 s scrolls half a row, 5/16 s one row.
DtSet == { <<5, 32>>, <<5, 16>> }
\* Frame times of SpecGen: 5/16 s crosses one row, 5/8 s two rows (a slow frame).
DtGen == { <<5, 16>>, <<5, 8>> }

\* ------------------------------------------------------------- arithmetic
\* Lengths are counted in 1/32 pixel.
Px(n) == 32 * n
RMul(a, b) == <<a[1] * b[1], a[2] * b[2]>>
\* The integer a rational of length units stands for (floor division).
ToLen(q) == q[1] \div q[2]
Exact(q) == q[1] % q[2] = 0
Zero == <<0, 1>>
Neg(q) == <<-q[1], q[2]>>

\* ------------------------------------------------------ program constants
width == Px(900)
height == Px(400)
V_NB_LINES == 8
V_LINES_SPACING == <<4, 10>>
H_LINES_SPACING == <<15, 100>>
SPEED == <<8, 10>>
SPEED_X == <<35, 10>>
NB_TILES == 16
SHIP_WIDTH == <<1, 10>>
SHIP_HEIGHT == <<35, 1000>>
SHIP_BASE_Y == <<4, 100>>
PRE_FILL == 10
VOICE_DELAY == 3
TITLE_START == "G   A   L   A   X   Y"
BUTTON_START == "START"
TITLE_GAME_OVER == "G  A  M  E    O  V  E  R"
BUTTON_RESTART == "RESTART"

\* The vanishing point: mid-width (set by the layout file, not by main.py).
perspective_point_x == width \div 2

VARIABLES
    tiles_coordinates,      \* list of <<column, row>>
    current_offset_y,       \* forward scroll within the current row
    current_y_loop,         \* row counter, the score
    current_speed_x,        \* held steering velocity, a rational
    current_offset_x,       \* horizontal scroll accumulator
    state_game_over,
    state_game_has_started,
    menu_title,
    menu_button_title,
    score_txt,
    menu_opacity,           \* menu_widget.opacity
    timers,                 \* pending Clock.schedule_once callbacks, oldest first
    sfx,                    \* the sounds started or stopped by the last step
    gen_log,                \* the iterations of the last generation pass
    run_clock,              \* the time the frames of the running game covered since
                            \* the last reset, in 1/32 s
    viewport,               \* the height and perspective_point_y the projection reads
    projected,              \* the last points handed to transform, what it returned
                            \* for them, and whether it raised
    op                      \* the handler that ran last ("input": any of the four
                            \* keyboard and touch handlers)

vars == << tiles_coordinates, current_offset_y, current_y_loop, current_speed_x,
           current_offset_x, state_game_over, state_game_has_started, menu_title,
           menu_button_title, score_txt, menu_opacity, timers, sfx, gen_log, run_clock,
           viewport, projected, op >>

\* ------------------------------------------------------------- score text
Digit(d) == <<"0", "1", "2", "3", "4", "5", "6", "7", "8", "9">>[d + 1]

RECURSIVE str(_)
\* Python's str() of a non-negative int: its decimal digits.
str(n) == IF n < 10 THEN <<Digit(n)>> ELSE str(n \div 10) \o <<Digit(n % 10)>>

ScoreText(n) == <<"SCORE: ">> \o str(n)

\* -------------------------------------------------------- path generation
start_index == -(V_NB_LINES \div 2) + 1
end_index == start_index + V_NB_LINES - 1

pre_fill_tiles_coordinates(tiles) ==
    tiles \o [i \in 1..PRE_FILL |-> <<0, i - 1>>]

\* TrimTiles deleting nothing.
TrimTiles_KeepAll(tiles, y_loop) == tiles

\* Lines 376-378: drop every tile behind the current row.
TrimTiles(tiles, y_loop) == SelectSeq(tiles, LAMBDA t : ~(t[2] < y_loop))

\* ForcedDirection with the right boundary tested by > instead of >=.
ForcedDirection_LateLeft(last_x, r) ==
    LET r1 == IF last_x <= start_index THEN 1 ELSE r
    IN  IF last_x > end_index THEN 2 ELSE r1

\* ForcedDirection without the left-boundary override.
ForcedDirection_NoRight(last_x, r) ==
    IF last_x >= end_index THEN 2 ELSE r

\* Lines 399-402: the direction taken for draw r at running column last_x.
ForcedDirection(last_x, r) ==
    LET r1 == IF last_x <= start_index THEN 1 ELSE r
    IN  IF last_x >= end_index THEN 2 ELSE r1

\* EmitTiles placing a turn's corner tiles only, without the tile beside the
\* first.
EmitTiles_Diagonal(last_x, last_y, r) ==
    IF r = 1 THEN << <<last_x, last_y>>, <<last_x + 1, last_y + 1>> >>
    ELSE IF r = 2 THEN << <<last_x, last_y>>, <<last_x - 1, last_y + 1>> >>
    ELSE << <<last_x, last_y>> >>

\* Lines 405-417: the tiles one iteration appends.
EmitTiles(last_x, last_y, r) ==
    IF r = 1 THEN << <<last_x, last_y>>, <<last_x + 1, last_y>>, <<last_x + 1, last_y + 1>> >>
    ELSE IF r = 2 THEN << <<last_x, last_y>>, <<last_x - 1, last_y>>, <<last_x - 1, last_y + 1>> >>
    ELSE << <<last_x, last_y>> >>

NextX(last_x, r) == IF r = 1 THEN last_x + 1 ELSE IF r = 2 THEN last_x - 1 ELSE last_x
\* NextY without the closing last_y += 1 of line 420.
NextY_NoRowAdvance(last_y, r) == IF r \in {1, 2} THEN last_y + 1 ELSE last_y

\* NextY without the row a turn climbs.
NextY_OneRow(last_y, r) == last_y + 1

\* Lines 410, 415, 420: the row the next iteration starts at.
NextY(last_y, r) == IF r \in {1, 2} THEN last_y + 2 ELSE last_y + 1

RECURSIVE ExtendTiles(_, _, _, _, _, _)
\* Lines 387-420: one iteration per element of the draw sequence rs.  The log
\* keeps, per iteration, the running position it started at, the draw, the
\* direction taken, the tiles appended and the position it left.
ExtendTiles(tiles, log, last_x, last_y, rs, i) ==
    IF i > Len(rs) THEN [tiles |-> tiles, log |-> log]
    ELSE LET r == ForcedDirection(last_x, rs[i])
         IN  ExtendTiles(tiles \o EmitTiles(last_x, last_y, r),
                         Append(log, [col |-> last_x, row |-> last_y, draw |-> rs[i], dir |-> r,
                                      emit |-> EmitTiles(last_x, last_y, r),
                                      nx |-> NextX(last_x, r), ny |-> NextY(last_y, r)]),
                         NextX(last_x, r), NextY(last_y, r), rs, i + 1)

\* Iterations as range(len(tiles_coordinates), NB_TILES + 1).
Iterations_OneMore(tiles) == IF Len(tiles) < NB_TILES + 1 THEN NB_TILES + 1 - Len(tiles) ELSE 0

\* Iterations as range(len(tiles_coordinates), NB_TILES - 1).
Iterations_OneShort(tiles) == IF Len(tiles) < NB_TILES - 1 THEN NB_TILES - 1 - Len(tiles) ELSE 0

\* Lines 387: range(len(tiles_coordinates), NB_TILES) is fixed when the loop starts.
Iterations(tiles) == IF Len(tiles) < NB_TILES THEN NB_TILES - Len(tiles) ELSE 0

\* generate_tiles_coordinates continuing at the last tile's own row.
generate_tiles_coordinates_ReusesRow(tiles, y_loop, rs) ==
    LET kept == TrimTiles(tiles, y_loop)
        last_x == IF Len(kept) > 0 THEN kept[Len(kept)][1] ELSE 0
        last_y == IF Len(kept) > 0 THEN kept[Len(kept)][2] ELSE 0
    IN  ExtendTiles(kept, <<>>, last_x, last_y, rs, 1)

\* Lines 372-420.
generate_tiles_coordinates(tiles, y_loop, rs) ==
    LET kept == TrimTiles(tiles, y_loop)
        last_x == IF Len(kept) > 0 THEN kept[Len(kept)][1] ELSE 0
        last_y == IF Len(kept) > 0 THEN kept[Len(kept)][2] + 1 ELSE 0
    IN  ExtendTiles(kept, <<>>, last_x, last_y, rs, 1)

\* Line 389: random.randint(0, 2), once per iteration; the draw sequences of
\* one pass that hold at most T turns.
RECURSIVE DrawSeqs(_, _)
DrawSeqs(n, T) ==
    IF n = 0 THEN { <<>> }
    ELSE { Append(rs, 0) : rs \in DrawSeqs(n - 1, T) }
         \cup (IF T > 0
               THEN { Append(rs, r) : rs \in DrawSeqs(n - 1, T - 1), r \in {1, 2} }
               ELSE {})

Draws(tiles, y_loop, T) == DrawSeqs(Iterations(TrimTiles(tiles, y_loop)), T)

\* Every outcome of one generation pass over those draws.
GenResults(tiles, y_loop, T) ==
    { generate_tiles_coordinates(tiles, y_loop, rs) : rs \in Draws(tiles, y_loop, T) }

\* Lines 210-215: reset_game's empty list, pre-filled and extended by one pass.
\* The outcomes under the two random sources used below are computed once.
ResetBounded == GenResults(pre_fill_tiles_coordinates(<<>>), 0, MaxTurns)
ResetUnbounded == GenResults(pre_fill_tiles_coordinates(<<>>), 0, NB_TILES)
ResetResults(T) ==
    IF T = MaxTurns THEN ResetBounded
    ELSE IF T = NB_TILES THEN ResetUnbounded
    ELSE GenResults(pre_fill_tiles_coordinates(<<>>), 0, T)

\* ---------------------------------------------------------------- geometry
\* get_line_x_from_index without the half-column centring.
get_line_x_from_index_NoCentre(index, offset_x) ==
    LET spacing == ToLen(RMul(V_LINES_SPACING, <<width, 1>>))
    IN  perspective_point_x + index * spacing + offset_x

get_line_x_from_index(index, offset_x) ==
    LET spacing == ToLen(RMul(V_LINES_SPACING, <<width, 1>>))
    IN  perspective_point_x + ((2 * index - 1) * spacing) \div 2 + offset_x

\* get_line_y_from_index adding the scroll offset.
get_line_y_from_index_AddsOffset(index, offset_y) ==
    LET spacing_y == ToLen(RMul(H_LINES_SPACING, <<height, 1>>))
    IN  index * spacing_y + offset_y

\* Lines 517-520.
get_line_y_from_index(index, offset_y) ==
    LET spacing_y == ToLen(RMul(H_LINES_SPACING, <<height, 1>>))
    IN  index * spacing_y - offset_y

get_tile_coordinates(ti_x, ti_y, y_loop, offset_x, offset_y) ==
    << get_line_x_from_index(ti_x, offset_x),
       get_line_y_from_index(ti_y - y_loop, offset_y) >>

\* ship_coordinates with the whole ship width on either side of the centre.
ship_coordinates_FullWidth ==
    LET center_x == width \div 2
        base_y == ToLen(RMul(SHIP_BASE_Y, <<height, 1>>))
        half_width == ToLen(RMul(SHIP_WIDTH, <<width, 1>>))
        ship_height == ToLen(RMul(SHIP_HEIGHT, <<height, 1>>))
    IN  << <<center_x - half_width, base_y>>,
           <<center_x, base_y + ship_height>>,
           <<center_x + half_width, base_y>> >>

\* update_ship, lines 264-272: the three vertices, recomputed every frame.
ship_coordinates ==
    LET center_x == width \div 2
        base_y == ToLen(RMul(SHIP_BASE_Y, <<height, 1>>))
        half_width == ToLen(RMul(SHIP_WIDTH, <<width, 2>>))
        ship_height == ToLen(RMul(SHIP_HEIGHT, <<height, 1>>))
    IN  << <<center_x - half_width, base_y>>,
           <<center_x, base_y + ship_height>>,
           <<center_x + half_width, base_y>> >>

check_ship_collision_with_tile(ti_x, ti_y, y_loop, offset_x, offset_y) ==
    LET lo == get_tile_coordinates(ti_x, ti_y, y_loop, offset_x, offset_y)
        hi == get_tile_coordinates(ti_x + 1, ti_y + 1, y_loop, offset_x, offset_y)
    IN  \E i \in 1..3 :
            /\ lo[1] <= ship_coordinates[i][1] /\ ship_coordinates[i][1] <= hi[1]
            /\ lo[2] <= ship_coordinates[i][2] /\ ship_coordinates[i][2] <= hi[2]

RECURSIVE CollisionScan_LookAheadTrue(_, _, _, _, _)
\* CollisionScan answering True at the first look-ahead tile.
CollisionScan_LookAheadTrue(tiles, i, y_loop, offset_x, offset_y) ==
    IF i > Len(tiles) THEN FALSE
    ELSE IF tiles[i][2] > y_loop + 1 THEN TRUE
    ELSE IF check_ship_collision_with_tile(tiles[i][1], tiles[i][2], y_loop, offset_x, offset_y)
         THEN TRUE
         ELSE CollisionScan_LookAheadTrue(tiles, i + 1, y_loop, offset_x, offset_y)

RECURSIVE CollisionScan_CutoffAtRow(_, _, _, _, _)
\* CollisionScan stopping at the first tile ahead of the current row.
CollisionScan_CutoffAtRow(tiles, i, y_loop, offset_x, offset_y) ==
    IF i > Len(tiles) THEN FALSE
    ELSE IF tiles[i][2] > y_loop THEN FALSE
    ELSE IF check_ship_collision_with_tile(tiles[i][1], tiles[i][2], y_loop, offset_x, offset_y)
         THEN TRUE
         ELSE CollisionScan_CutoffAtRow(tiles, i + 1, y_loop, offset_x, offset_y)

RECURSIVE CollisionScan(_, _, _, _, _)
\* Lines 294-304: scan in storage order, stop at the first look-ahead tile.
CollisionScan(tiles, i, y_loop, offset_x, offset_y) ==
    IF i > Len(tiles) THEN FALSE
    ELSE IF tiles[i][2] > y_loop + 1 THEN FALSE
    ELSE IF check_ship_collision_with_tile(tiles[i][1], tiles[i][2], y_loop, offset_x, offset_y)
         THEN TRUE
         ELSE CollisionScan(tiles, i + 1, y_loop, offset_x, offset_y)

\* check_ship_collisions with its two answers swapped.
check_ship_collisions_Negated(tiles, y_loop, offset_x, offset_y) ==
    ~CollisionScan(tiles, 1, y_loop, offset_x, offset_y)

check_ship_collisions(tiles, y_loop, offset_x, offset_y) ==
    CollisionScan(tiles, 1, y_loop, offset_x, offset_y)

\* -------------------------------------------------------------- projection
\* The vanishing point's height, a fraction of the viewport's (set by the layout
\* file, not by main.py): three quarters.
perspective_point_y == (3 * height) \div 4

\* The viewport the program runs in, and the viewports a setup may present:
\* that one, one of height 0, and one whose perspective_point_y is still the 0
\* of its declaration.
Viewport == [height |-> height, perspective_point_y |-> perspective_point_y]
Viewports == { Viewport,
               [height |-> 0, perspective_point_y |-> 0],
               [height |-> height, perspective_point_y |-> 0] }

RECURSIVE GCD(_, _)
GCD(a, b) == IF b = 0 THEN a ELSE GCD(b, a % b)
Abs(n) == IF n < 0 THEN -n ELSE n
\* A rational in lowest terms, its denominator positive.
Reduce(q) ==
    LET g == GCD(Abs(q[1]), Abs(q[2]))
        sg == IF q[2] < 0 THEN -1 ELSE 1
    IN  << sg * (q[1] \div g), sg * (q[2] \div g) >>
\* pow(q, 4).
Pow4(q) == << q[1] * q[1] * q[1] * q[1], q[2] * q[2] * q[2] * q[2] >>
\* int(P + v) for a whole number P and a rational v: int() truncates toward 0.
IntPlus(P, v) ==
    LET floor_v == v[1] \div v[2]
        ceil_v == -((-v[1]) \div v[2])
    IN  IF P + floor_v >= 0 THEN P + floor_v ELSE P + ceil_v

\* transforms.py lines 79 and 87: the divisions by height and perspective_point_y.
ZeroDivisionError(vp) == vp.height = 0 \/ vp.perspective_point_y = 0

\* transform_perspective without the clamp of lines 81-82.
transform_perspective_NoClamp(x, y, vp) ==
    LET ppy == vp.perspective_point_y
        lin_y == << y * ppy, vp.height >>
        diff_x == x - perspective_point_x
        diff_y == << ppy * lin_y[2] - lin_y[1], lin_y[2] >>
        factor_y == Pow4(Reduce(<< diff_y[1], diff_y[2] * ppy >>))
        offset_x == << diff_x * factor_y[1], 32 * factor_y[2] >>
        drop_y == << -(factor_y[1] * (ppy \div 32)), factor_y[2] >>
    IN  << IntPlus(perspective_point_x \div 32, offset_x),
           IntPlus(ppy \div 32, drop_y) >>

\* transforms.py lines 79-94, for a viewport that does not raise.  x and y are
\* lengths (1/32 pixel); the result is in whole pixels, as int() leaves it.
transform_perspective(x, y, vp) ==
    LET ppy == vp.perspective_point_y
        lin_y == IF y * ppy > ppy * vp.height
                 THEN << ppy, 1 >>
                 ELSE << y * ppy, vp.height >>
        diff_x == x - perspective_point_x
        diff_y == << ppy * lin_y[2] - lin_y[1], lin_y[2] >>
        factor_y == Pow4(Reduce(<< diff_y[1], diff_y[2] * ppy >>))
        offset_x == << diff_x * factor_y[1], 32 * factor_y[2] >>
        drop_y == << -(factor_y[1] * (ppy \div 32)), factor_y[2] >>
    IN  << IntPlus(perspective_point_x \div 32, offset_x),
           IntPlus(ppy \div 32, drop_y) >>

\* transforms.py lines 19-34.
transform(x, y, vp) == transform_perspective(x, y, vp)

\* What a run of calls of transform on the points ws leaves: the first call
\* raises in a viewport with a zero divisor.
Projection(ws, vp) ==
    IF ZeroDivisionError(vp)
    THEN [fault |-> TRUE, world |-> <<>>, points |-> <<>>]
    ELSE [fault |-> FALSE, world |-> ws,
          points |-> [i \in DOMAIN ws |-> transform(ws[i][1], ws[i][2], vp)]]

\* ------------------------------------------------------------------ frames
spacing_y == ToLen(RMul(H_LINES_SPACING, <<height, 1>>))

\* time_factor taking every frame for one sixtieth of a second.
time_factor_FixedFrame(dt) == <<1, 1>>

\* Line 598: time_factor = dt * 60.
time_factor(dt) == RMul(dt, <<60, 1>>)
\* Lines 609-610: speed_y * time_factor, speed_y = SPEED * height / 100.
StepY(dt) == ToLen(RMul(RMul(SPEED, <<height, 100>>), time_factor(dt)))
\* Lines 621-622: speed_x * time_factor, speed_x = current_speed_x * width / 100.
StepX(speed, dt) == ToLen(RMul(RMul(speed, <<width, 100>>), time_factor(dt)))

RECURSIVE CrossRows_StaleScore(_, _, _, _, _, _)
RECURSIVE CrossRows(_, _, _, _, _, _)
\* CrossRows leaving the score text as it was.
CrossRows_StaleScore(offset_y, y_loop, tiles, log, txt, T) ==
    IF offset_y >= spacing_y
    THEN UNION { CrossRows_StaleScore(offset_y - spacing_y, y_loop + 1, g.tiles, g.log,
                                      txt, T) :
                 g \in GenResults(tiles, y_loop + 1, T) }
    ELSE { [offset_y |-> offset_y, y_loop |-> y_loop, tiles |-> tiles,
            log |-> log, txt |-> txt] }

\* CrossRows as an if: one row crossed at most.
CrossRows_Once(offset_y, y_loop, tiles, log, txt, T) ==
    IF offset_y >= spacing_y
    THEN { [offset_y |-> offset_y - spacing_y, y_loop |-> y_loop + 1, tiles |-> g.tiles,
            log |-> g.log, txt |-> ScoreText(y_loop + 1)] :
           g \in GenResults(tiles, y_loop + 1, T) }
    ELSE { [offset_y |-> offset_y, y_loop |-> y_loop, tiles |-> tiles,
            log |-> log, txt |-> txt] }

\* Lines 614-618: the row-crossing loop; the set of its outcomes over all draws.
CrossRows(offset_y, y_loop, tiles, log, txt, T) ==
    IF offset_y >= spacing_y
    THEN UNION { CrossRows(offset_y - spacing_y, y_loop + 1, g.tiles, g.log,
                           ScoreText(y_loop + 1), T) :
                 g \in GenResults(tiles, y_loop + 1, T) }
    ELSE { [offset_y |-> offset_y, y_loop |-> y_loop, tiles |-> tiles,
            log |-> log, txt |-> txt] }

\* The frame's guard without the game-over test.
Running_StartedOnly == state_game_has_started

\* Line 607 (and user_actions.py line 145).
Running == ~state_game_over /\ state_game_has_started

\* GameOverTransition leaving the overlay as it is.
GameOverTransition_MenuStaysHidden ==
    /\ state_game_over' = TRUE
    /\ menu_title' = TITLE_GAME_OVER
    /\ menu_button_title' = BUTTON_RESTART
    /\ menu_opacity' = menu_opacity
    /\ sfx' = {"music1.stop", "gameover_impact.play"}
    /\ timers' = Append(timers, [delay |-> VOICE_DELAY, restarted |-> FALSE])

\* GameOverTransition changing the button's label only.
GameOverTransition_KeepsTitle ==
    /\ state_game_over' = TRUE
    /\ menu_title' = menu_title
    /\ menu_button_title' = BUTTON_RESTART
    /\ menu_opacity' = 1
    /\ sfx' = {"music1.stop", "gameover_impact.play"}
    /\ timers' = Append(timers, [delay |-> VOICE_DELAY, restarted |-> FALSE])

\* Lines 626-634: the game-over transition of a frame whose support check failed.
GameOverTransition ==
    /\ state_game_over' = TRUE
    /\ menu_title' = TITLE_GAME_OVER
    /\ menu_button_title' = BUTTON_RESTART
    /\ menu_opacity' = 1
    /\ sfx' = {"music1.stop", "gameover_impact.play"}
    /\ timers' = Append(timers, [delay |-> VOICE_DELAY, restarted |-> FALSE])

NoTransition ==
    /\ sfx' = {}
    /\ UNCHANGED << state_game_over, menu_title, menu_button_title, menu_opacity, timers >>

\* CollisionStep without the test that the game is not over already.
CollisionStep_NoOverTest ==
    IF ~check_ship_collisions(tiles_coordinates', current_y_loop',
                              current_offset_x', current_offset_y')
    THEN GameOverTransition
    ELSE NoTransition

\* Lines 624-634, evaluated on the state the frame's scroll left.
CollisionStep ==
    IF /\ ~check_ship_collisions(tiles_coordinates', current_y_loop',
                                 current_offset_x', current_offset_y')
       /\ ~state_game_over
    THEN GameOverTransition
    ELSE NoTransition

\* A frame time in 1/32 s.
Ticks(dt) == (32 * dt[1]) \div dt[2]

\* Lines 607-634: the frame after its drawing calls.
Physics(dt, T, cap) ==
    /\ IF Running
       THEN /\ current_y_loop + ((current_offset_y + StepY(dt)) \div spacing_y) <= cap
            /\ \E o \in CrossRows(current_offset_y + StepY(dt), current_y_loop,
                                  tiles_coordinates, gen_log, score_txt, T) :
                  /\ current_offset_y' = o.offset_y
                  /\ current_y_loop' = o.y_loop
                  /\ tiles_coordinates' = o.tiles
                  /\ gen_log' = o.log
                  /\ score_txt' = o.txt
            /\ current_offset_x' = current_offset_x + StepX(current_speed_x, dt)
            /\ run_clock' = run_clock + Ticks(dt)
       ELSE UNCHANGED << current_offset_y, current_y_loop, tiles_coordinates, gen_log,
                         score_txt, current_offset_x, run_clock >>
    /\ CollisionStep

\* Lines 598-634.  The drawing calls of lines 601-604 come first: the first
\* transform of a viewport with a zero divisor raises and the frame ends there;
\* otherwise update_ship, the last of them, leaves the ship's screen points.
update(dt, T, cap) ==
    /\ op' = "update"
    /\ projected' = Projection(ship_coordinates, viewport)
    /\ IF ZeroDivisionError(viewport)
       THEN /\ sfx' = {}
            /\ UNCHANGED << current_offset_y, current_y_loop, tiles_coordinates, gen_log,
                            score_txt, current_offset_x, run_clock, state_game_over,
                            menu_title, menu_button_title, menu_opacity, timers >>
       ELSE Physics(dt, T, cap)
    /\ UNCHANGED << current_speed_x, state_game_has_started, viewport >>

\* Lines 636-644: the oldest pending timer fires.
play_voice_game_over ==
    /\ timers /= <<>>
    /\ op' = "play_voice_game_over"
    /\ timers' = Tail(timers)
    /\ sfx' = IF state_game_over THEN {"gameover_voice.play"} ELSE {}
    /\ UNCHANGED << tiles_coordinates, current_offset_y, current_y_loop, current_speed_x,
                    current_offset_x, state_game_over, state_game_has_started, menu_title,
                    menu_button_title, score_txt, menu_opacity, gen_log, run_clock,
                    viewport, projected >>

\* ------------------------------------------------------------------- reset
\* reset_game leaving the held steering velocity as it was.
reset_game_KeepsSpeed(T) ==
    /\ current_offset_y' = 0
    /\ current_y_loop' = 0
    /\ current_speed_x' = current_speed_x
    /\ current_offset_x' = 0
    /\ score_txt' = ScoreText(0)
    /\ \E g \in ResetResults(T) :
          /\ tiles_coordinates' = g.tiles
          /\ gen_log' = g.log
    /\ state_game_over' = FALSE
    /\ run_clock' = 0

\* Lines 204-218, as a relation: the fields reset_game assigns.
reset_game(T) ==
    /\ current_offset_y' = 0
    /\ current_y_loop' = 0
    /\ current_speed_x' = Zero
    /\ current_offset_x' = 0
    /\ score_txt' = ScoreText(0)
    /\ \E g \in ResetResults(T) :
          /\ tiles_coordinates' = g.tiles
          /\ gen_log' = g.log
    /\ state_game_over' = FALSE
    /\ run_clock' = 0

\* Lines 660-672.
on_menu_button_pressed(T) ==
    /\ Len(timers) < MaxTimers
    /\ op' = "on_menu_button_pressed"
    /\ sfx' = {IF state_game_over THEN "restart.play" ELSE "begin.play", "music1.play"}
    /\ reset_game(T)
    /\ state_game_has_started' = TRUE
    /\ menu_opacity' = 0
    /\ timers' = [i \in 1..Len(timers) |-> [timers[i] EXCEPT !.restarted = TRUE]]
    /\ UNCHANGED << menu_title, menu_button_title, viewport, projected >>

\* ------------------------------------------------------------------- input
InputFrame ==
    UNCHANGED << tiles_coordinates, current_offset_y, current_y_loop, current_offset_x,
                 state_game_over, state_game_has_started, menu_title, menu_button_title,
                 score_txt, menu_opacity, timers, gen_log, run_clock, viewport,
                 projected >>

\* user_actions.py lines 76-84.
on_keyboard_down(key) ==
    /\ op' = "input"
    /\ sfx' = {}
    /\ current_speed_x' = IF key = "left" THEN SPEED_X
                          ELSE IF key = "right" THEN Neg(SPEED_X)
                          ELSE current_speed_x
    /\ InputFrame

\* user_actions.py line 107.
on_keyboard_up ==
    /\ op' = "input"
    /\ sfx' = {}
    /\ current_speed_x' = Zero
    /\ InputFrame

\* The overlay's opacity before the first command: shown (no line of src/ sets
\* it; the layout leaves the widget's default).
menu_widget_opacity == 1

\* menu.py lines 101-108: a hidden menu takes no touch; a visible one hands it
\* to its button.
MenuTakesTouch_Always == TRUE

MenuTakesTouch == menu_opacity /= 0

\* on_touch_down starting the game on any touch.
on_touch_down_TapStarts(left_half) ==
    /\ op' = "input"
    /\ sfx' = {}
    /\ current_speed_x' = IF Running
                          THEN (IF left_half THEN SPEED_X ELSE Neg(SPEED_X))
                          ELSE current_speed_x
    /\ state_game_has_started' = TRUE
    /\ UNCHANGED << tiles_coordinates, current_offset_y, current_y_loop, current_offset_x,
                    state_game_over, menu_title, menu_button_title, score_txt,
                    menu_opacity, timers, gen_log, run_clock, viewport, projected >>

\* user_actions.py lines 145-155: a touch that does not press the menu button.
on_touch_down(left_half) ==
    /\ op' = "input"
    /\ sfx' = {}
    /\ current_speed_x' = IF Running
                          THEN (IF left_half THEN SPEED_X ELSE Neg(SPEED_X))
                          ELSE current_speed_x
    /\ InputFrame

\* user_actions.py line 155 into the visible menu: the touch presses the button.
\* The steering assignment of lines 145-152 is overwritten by reset_game.
on_touch_down_button(T) ==
    /\ MenuTakesTouch
    /\ on_menu_button_pressed(T)

\* on_touch_up also recentring the track.
on_touch_up_Recentre ==
    /\ op' = "input"
    /\ sfx' = {}
    /\ current_speed_x' = Zero
    /\ current_offset_x' = 0
    /\ UNCHANGED << tiles_coordinates, current_offset_y, current_y_loop,
                    state_game_over, state_game_has_started, menu_title, menu_button_title,
                    score_txt, menu_opacity, timers, gen_log, run_clock, viewport,
                    projected >>

\* user_actions.py line 182.
on_touch_up ==
    /\ op' = "input"
    /\ sfx' = {}
    /\ current_speed_x' = Zero
    /\ InputFrame

\* --------------------------------------------------------- specification
\* Lines 143-165 with the class attributes of lines 82-116: __init__ ends with
\* reset_game's path, the menu shown and the title sound playing.
Construct(T, vps) ==
    /\ current_offset_y = 0
    /\ current_y_loop = 0
    /\ current_speed_x = Zero
    /\ current_offset_x = 0
    /\ score_txt = ScoreText(0)
    /\ \E g \in ResetResults(T) :
          /\ tiles_coordinates = g.tiles
          /\ gen_log = g.log
    /\ state_game_over = FALSE
    /\ state_game_has_started = FALSE
    /\ menu_title = TITLE_START
    /\ menu_button_title = BUTTON_START
    /\ menu_opacity = menu_widget_opacity
    /\ timers = <<>>
    /\ sfx = {"galaxy.play"}
    /\ run_clock = 0
    /\ viewport \in vps
    /\ projected = [fault |-> FALSE, world |-> <<>>, points |-> <<>>]
    /\ op = "__init__"

\* The whole program; the random source draws at most MaxTurns turns a pass.
Init == Construct(MaxTurns, {Viewport})

Next ==
    \/ \E dt \in DtSet : update(dt, MaxTurns, MaxRow)
    \/ play_voice_game_over
    \/ \E key \in {"left", "right", "other"} : on_keyboard_down(key)
    \/ on_keyboard_up
    \/ \E left_half \in BOOLEAN : on_touch_down(left_half)
    \/ on_touch_down_button(MaxTurns)
    \/ on_touch_up

Spec == Init /\ [][Next]_vars

\* The path generator under every draw of the start command and of the frames
\* that cross rows, with no steering.
InitGen == Construct(MaxTurns, {Viewport})

NextGen ==
    \/ \E dt \in DtGen : update(dt, NB_TILES, MaxRowGen)
    \/ on_touch_down_button(NB_TILES)

SpecGen == InitGen /\ [][NextGen]_vars

\* The projection alone: pairs of calls of transform with the same world x,
\* in the program's viewport.
ProbeX == { perspective_point_x + d :
            d \in { -Px(600), -Px(450), -Px(180), -Px(1), 0, Px(1), Px(180), Px(450) } }
ProbeY == { (j * height) \div 10 : j \in { -2, 0, 3, 5, 9, 10, 12, 15 } }

transform_calls(x, y1, y2) ==
    /\ y1 < y2
    /\ op' = "transform"
    /\ projected' = Projection(<< <<x, y1>>, <<x, y2>> >>, viewport)
    /\ UNCHANGED << tiles_coordinates, current_offset_y, current_y_loop, current_speed_x,
                    current_offset_x, state_game_over, state_game_has_started, menu_title,
                    menu_button_title, score_txt, menu_opacity, timers, sfx, gen_log,
                    run_clock, viewport >>

InitProj == Construct(0, {Viewport})

NextProj == \E x \in ProbeX, y1 \in ProbeY, y2 \in ProbeY : transform_calls(x, y1, y2)

SpecProj == InitProj /\ [][NextProj]_vars

\* The program set up in any of the viewports; a frame that raised ends it.
InitCfg == Construct(MaxTurns, Viewports)

NextCfg == ~projected.fault /\ Next

SpecCfg == InitCfg /\ [][NextCfg]_vars

\* Steering on the straight track (no turn drawn): frames of 1/16 s scroll a
\* fifth of a row and, with a key held, 0.13 of the width sideways, so that a
\* steered ship can stay on the corridor for a frame.
DtSteer == { <<1, 16>> }

InitSteer == Construct(0, {Viewport})

NextSteer ==
    \/ \E dt \in DtSteer : update(dt, 0, MaxRow)
    \/ play_voice_game_over
    \/ \E key \in {"left", "right"} : on_keyboard_down(key)
    \/ on_keyboard_up
    \/ on_touch_down_button(0)

SpecSteer == InitSteer /\ [][NextSteer]_vars

\* Every scaled quantity of the model is an exact integer.
ExactUnits ==
    /\ \A dt \in DtSet \cup DtGen \cup DtSteer :
          /\ Exact(RMul(dt, <<32, 1>>))
          /\ Exact(RMul(RMul(SPEED, <<height, 100>>), time_factor(dt)))
          /\ Exact(RMul(RMul(SPEED_X, <<width, 100>>), time_factor(dt)))
    /\ Exact(RMul(V_LINES_SPACING, <<width, 2>>))
    /\ Exact(RMul(H_LINES_SPACING, <<height, 1>>))
    /\ Exact(RMul(SHIP_BASE_Y, <<height, 1>>))
    /\ Exact(RMul(SHIP_WIDTH, <<width, 2>>))
    /\ Exact(RMul(SHIP_HEIGHT, <<height, 1>>))
    /\ perspective_point_x % 32 = 0
    /\ perspective_point_y % 32 = 0
    /\ \A y \in ProbeY : y % 32 = 0

\* ================================================================= claims

\* C1: after every generation pass (in reset_game after the pre-fill, and on
\* every row crossing of update) the tile list holds exactly NB_TILES = 16
\* entries, whatever the draws.
C1_TileCountExact == Len(tiles_coordinates) = NB_TILES

\* C2: every tile ever placed has its column within
\* [-floor(V_NB_LINES/2)+1, -floor(V_NB_LINES/2)+V_NB_LINES], that is [-3, 4].
C2_ColumnsInSpan ==
    \A i \in DOMAIN tiles_coordinates :
        /\ tiles_coordinates[i][1] >= -(V_NB_LINES \div 2) + 1
        /\ tiles_coordinates[i][1] <= -(V_NB_LINES \div 2) + V_NB_LINES
        /\ tiles_coordinates[i][1] \in -3..4

\* A track that reached the last column, after an advance call.
C2_Witness ==
    /\ current_y_loop > 0
    /\ \E i \in DOMAIN tiles_coordinates : tiles_coordinates[i][1] = 4

C4_Supported ==
    \E i \in DOMAIN tiles_coordinates :
        /\ tiles_coordinates[i][2] <= current_y_loop + 1
        /\ check_ship_collision_with_tile(tiles_coordinates[i][1], tiles_coordinates[i][2],
                                          current_y_loop, current_offset_x, current_offset_y)

\* C4: when a frame of a started game returns and, on the state its scroll
\* left, no tile with row <= y_loop + 1 holds a ship vertex, the game is over.
C4_UnsupportedFrameEndsGame ==
    (op = "update" /\ state_game_has_started /\ ~C4_Supported) => state_game_over

\* The frame that took a running game to game over.
C4_Witness ==
    /\ op = "update"
    /\ state_game_over
    /\ "gameover_impact.play" \in sfx
    /\ ~C4_Supported

\* C5: a frame taken when the game is over, or not started, leaves the row
\* counter, the score text, both offsets and the tile list unchanged.
C5_FrozenOutsideRunning ==
    [][ (op' = "update" /\ (state_game_over \/ ~state_game_has_started))
        => UNCHANGED << current_y_loop, score_txt, current_offset_y, current_offset_x,
                        tiles_coordinates >> ]_vars

\* A later frame of a game that ended with a score and a steering offset.
C5_Witness ==
    /\ state_game_over
    /\ op = "update"
    /\ sfx = {}
    /\ current_y_loop > 0
    /\ current_offset_x /= 0

\* The tiles one generation pass of six iterations appends from column 0, row 10.
C6_FreshTails ==
    { ExtendTiles(<<>>, <<>>, 0, 10, rs, 1).tiles : rs \in [1..6 -> {0, 1, 2}] }

\* C6: the start/restart command leaves row counter, both offsets and the
\* steering velocity at 0, the state Running, and a tile list of (0,0)..(0,9)
\* followed by the tiles of one generation pass from row 10.
C6_RestartIsFresh ==
    op = "on_menu_button_pressed" =>
        /\ current_y_loop = 0
        /\ current_offset_y = 0
        /\ current_offset_x = 0
        /\ current_speed_x[1] = 0
        /\ state_game_has_started /\ ~state_game_over
        /\ Len(tiles_coordinates) >= 10
        /\ SubSeq(tiles_coordinates, 1, 10) = [i \in 1..10 |-> <<0, i - 1>>]
        /\ SubSeq(tiles_coordinates, 11, Len(tiles_coordinates)) \in C6_FreshTails

\* A restart out of game over, with a voice timer still pending.
C6_Witness ==
    /\ op = "on_menu_button_pressed"
    /\ "restart.play" \in sfx
    /\ timers /= <<>>

\* C7: the game becomes Running only by on_menu_button_pressed: no frame,
\* input handler or timer callback takes it there from NotStarted or GameOver.
C7_OnlyCommandStarts ==
    [][ ( /\ state_game_over \/ ~state_game_has_started
          /\ ~state_game_over' /\ state_game_has_started' )
        => op' = "on_menu_button_pressed" ]_vars

\* The voice timer fired in game over and the game is still over.
C7_Witness ==
    /\ state_game_over
    /\ op = "play_voice_game_over"
    /\ sfx = {"gameover_voice.play"}

\* C8: a voice timer that fires after a restart happened since it was
\* scheduled plays nothing, in every interleaving of restarts, frames and
\* timer firings.
C8_StaleTimerSilent ==
    [][ (op' = "play_voice_game_over" /\ timers /= <<>> /\ Len(timers') < Len(timers)
         /\ Head(timers).restarted)
        => "gameover_voice.play" \notin sfx' ]_vars

\* Horizontal offsets from -width to +width in steps of width/20.
C9_Offsets == { k * (width \div 20) : k \in -20..20 }

C9_AfterReset == op \in {"__init__", "on_menu_button_pressed"}

\* C9 as stated: immediately after a reset the support check is true for
\* every value of the horizontal offset.
C9_SupportedAtAnyOffset ==
    C9_AfterReset =>
        \A off \in C9_Offsets :
            check_ship_collisions(tiles_coordinates, current_y_loop, off, current_offset_y)

\* C9 amended: immediately after a reset the support check is true for every
\* horizontal offset of at most a quarter of the width in either direction,
\* the offset 0 that the reset leaves among them.
C9_SupportedNearCentre ==
    C9_AfterReset =>
        /\ current_offset_x = 0
        /\ \A off \in C9_Offsets :
              (4 * off <= width /\ 4 * off >= -width)
                  => check_ship_collisions(tiles_coordinates, current_y_loop, off,
                                           current_offset_y)

\* After a restart the check holds at a quarter width and fails one step beyond.
C9_Witness ==
    /\ op = "on_menu_button_pressed"
    /\ check_ship_collisions(tiles_coordinates, current_y_loop, width \div 4, current_offset_y)
    /\ ~check_ship_collisions(tiles_coordinates, current_y_loop,
                              width \div 4 + width \div 20, current_offset_y)

\* C10: in every iteration of a generation pass, a running column <= -3 takes
\* the right turn and one >= 4 the left turn whatever was drawn; strictly
\* between the two the draw decides.
C10_BoundaryForcesTurn ==
    \A k \in DOMAIN gen_log :
        /\ gen_log[k].col <= -3 => gen_log[k].dir = 1
        /\ gen_log[k].col >= 4 => gen_log[k].dir = 2
        /\ (-3 < gen_log[k].col /\ gen_log[k].col < 4) => gen_log[k].dir = gen_log[k].draw

\* An iteration at the left boundary whose draw was not the right turn.
C10_Witness ==
    \E k \in DOMAIN gen_log :
        /\ gen_log[k].col = -3
        /\ gen_log[k].draw /= 1
        /\ gen_log[k].dir = 1

\* C11: after every generation pass (at the end of every frame and after every
\* reset) no tile of the list has a row below the row counter, and no tile the
\* last pass appended has one.
C11_NoTileBehind ==
    /\ \A i \in DOMAIN tiles_coordinates : tiles_coordinates[i][2] >= current_y_loop
    /\ \A k \in DOMAIN gen_log :
          \A j \in DOMAIN gen_log[k].emit : gen_log[k].emit[j][2] >= current_y_loop

\* A frame crossed a row: the pass trimmed the list up to the row counter and
\* appended tiles.
C11_Witness ==
    /\ op = "update"
    /\ current_y_loop >= 2
    /\ tiles_coordinates[1][2] = current_y_loop
    /\ gen_log /= <<>>

\* The rows a running game has crossed after t/32 seconds, the viewport's
\* height cancelling: t/32 * 60 * (SPEED/100) / H_LINES_SPACING, rounded down.
C12_RowsAfter(t) ==
    (t * 60 * SPEED[1] * H_LINES_SPACING[2]) \div (32 * 100 * SPEED[2] * H_LINES_SPACING[1])

\* C12: the row counter of a game is decided by the total time its running
\* frames covered since the reset, whatever the frame times that made it up:
\* two sequences of frame times with the same total end with the same row
\* counter (so within one row of each other).
C12_RowsFollowElapsedTime == current_y_loop = C12_RowsAfter(run_clock)

\* Four rows crossed in 40/32 s, which no single frame time covers.
C12_Witness ==
    /\ op = "update"
    /\ run_clock = 40
    /\ current_y_loop = 4

\* C13: the overlay's opacity is 0 exactly while the game is Running and 1
\* otherwise; only the start/restart command changes it (to 0) and only the
\* game-over transition of a frame changes it back (to 1).
C13_MenuHiddenIffRunning ==
    /\ [](menu_opacity \in {0, 1})
    /\ []((menu_opacity = 0) <=> (state_game_has_started /\ ~state_game_over))
    /\ [][ menu_opacity' /= menu_opacity =>
             \/ op' = "on_menu_button_pressed" /\ menu_opacity' = 0
             \/ op' = "update" /\ ~state_game_over /\ state_game_over' /\ menu_opacity' = 1
         ]_vars

\* The overlay shown again by the frame that ended a game it was hidden for.
C13_Witness ==
    /\ op = "update"
    /\ state_game_over
    /\ state_game_has_started
    /\ menu_opacity = 1
    /\ timers /= <<>>

C14_Pair == << menu_title, menu_button_title >>
C14_StartPair == << "G   A   L   A   X   Y", "START" >>
C14_GameOverPair == << "G  A  M  E    O  V  E  R", "RESTART" >>

\* C14 as stated: the pair is one of the two fixed pairs, and a step changes it
\* exactly when it is a game-over transition or a restart.
C14_ChangedAtGameOverAndRestart ==
    /\ [](C14_Pair \in {C14_StartPair, C14_GameOverPair})
    /\ [][ (C14_Pair' /= C14_Pair) <=>
             \/ op' = "update" /\ ~state_game_over /\ state_game_over'
             \/ op' = "on_menu_button_pressed" /\ state_game_over
         ]_vars

\* C14 amended: the pair is one of the two fixed pairs; every game-over
\* transition leaves the game-over/restart pair; the only step that changes
\* the pair is the first game-over transition, from the start pair; no other
\* operation, restart included, changes it.
C14_ChangedAtFirstGameOverOnly ==
    /\ [](C14_Pair \in {C14_StartPair, C14_GameOverPair})
    /\ [][ (op' = "update" /\ ~state_game_over /\ state_game_over')
             => C14_Pair' = C14_GameOverPair ]_vars
    /\ [][ (C14_Pair' /= C14_Pair) =>
             /\ op' = "update" /\ ~state_game_over /\ state_game_over'
             /\ C14_Pair = C14_StartPair
         ]_vars

\* A restarted game running under the game-over/restart pair.
C14_Witness ==
    /\ op = "on_menu_button_pressed"
    /\ "restart.play" \in sfx
    /\ C14_Pair = C14_GameOverPair
    /\ ~state_game_over

C16_ScoreTextMatchesRow ==
    /\ Len(score_txt) >= 2
    /\ score_txt[1] = "SCORE: "
    /\ Tail(score_txt) = str(current_y_loop)

\* A frame that crossed into row 2.
C16_Witness ==
    /\ op = "update"
    /\ current_y_loop = 2
    /\ score_txt = << "SCORE: ", "2" >>

\* The horizontal distance, in pixels, of the k-th projected point from the
\* vanishing point.
C17_Distance(k) == Abs(projected.points[k][1] - perspective_point_x \div 32)

\* Two calls of transform were made, with the same world x and y1 < y2.
C17_Projected ==
    /\ op = "transform"
    /\ ~projected.fault
    /\ projected.world[1][1] = projected.world[2][1]
    /\ projected.world[1][2] < projected.world[2][2]

\* C17 as stated: of two points with the same world x, the one with the
\* larger world y is projected strictly nearer the vanishing point's x.
C17_StrictDecrease == C17_Projected => C17_Distance(2) < C17_Distance(1)

\* C17 amended: it is projected no farther from the vanishing point's x.
C17_NonIncreasing == C17_Projected => C17_Distance(2) <= C17_Distance(1)

\* The right edge of the viewport at its bottom and at half its height:
\* 450 pixels from the vanishing point, then 450/16 rounded down.
C17_Witness ==
    /\ C17_Projected
    /\ projected.world = << <<width, 0>>, <<width, height \div 2>> >>
    /\ projected.points[1] = << 900, 0 >>
    /\ projected.points[2][1] = 478
    /\ C17_Distance(2) < C17_Distance(1)

\* C18: no frame runs in a viewport whose height or perspective_point_y is 0,
\* and no frame's projection divides by zero: such a viewport is refused
\* before the first frame.
C18_NoFrameDividesByZero ==
    op = "update" => (~ZeroDivisionError(viewport) /\ ~projected.fault)

\* The tiles of C19 for an iteration at (c, r) in direction d.
C19_Emitted(c, r, d) ==
    IF d = 0 THEN << <<c, r>> >>
    ELSE IF d = 1 THEN << <<c, r>>, <<c + 1, r>>, <<c + 1, r + 1>> >>
    ELSE << <<c, r>>, <<c - 1, r>>, <<c - 1, r + 1>> >>

\* The position of C19 after an iteration at (c, r) in direction d.
C19_Continues(c, r, d) ==
    IF d = 0 THEN <<c, r + 1>>
    ELSE IF d = 1 THEN <<c + 1, r + 2>>
    ELSE <<c - 1, r + 2>>

RECURSIVE C19_Concat(_, _)
C19_Concat(log, k) == IF k = 0 THEN <<>> ELSE C19_Concat(log, k - 1) \o log[k].emit

\* One pass over an empty list: it starts at (0, 0).
C19_FromEmpty ==
    \A rs \in DrawSeqs(3, 3) :
        LET g == generate_tiles_coordinates(<<>>, 0, rs)
        IN  g.log[1].col = 0 /\ g.log[1].row = 0 /\ g.tiles[1] = <<0, 0>>

\* C19: every iteration of a pass emits, in order, the tiles of its direction
\* at its running position and leaves the position of its direction; each
\* iteration starts where the one before left; the first starts at the column
\* and row + 1 of the last tile the trim kept, or at (0, 0) on an empty list;
\* the list ends with the tiles of the pass in order.
C19_IterationEmits ==
    /\ \A k \in DOMAIN gen_log :
          /\ gen_log[k].emit = C19_Emitted(gen_log[k].col, gen_log[k].row, gen_log[k].dir)
          /\ << gen_log[k].nx, gen_log[k].ny >>
                = C19_Continues(gen_log[k].col, gen_log[k].row, gen_log[k].dir)
          /\ k > 1 => ( /\ gen_log[k].col = gen_log[k - 1].nx
                        /\ gen_log[k].row = gen_log[k - 1].ny )
    /\ gen_log /= <<>> =>
          LET added == C19_Concat(gen_log, Len(gen_log))
              kept == Len(tiles_coordinates) - Len(added)
          IN  /\ kept >= 0
              /\ SubSeq(tiles_coordinates, kept + 1, Len(tiles_coordinates)) = added
              /\ IF kept > 0
                 THEN /\ gen_log[1].col = tiles_coordinates[kept][1]
                      /\ gen_log[1].row = tiles_coordinates[kept][2] + 1
                 ELSE gen_log[1].col = 0 /\ gen_log[1].row = 0
    /\ C19_FromEmpty

\* A pass after a row crossing whose first iteration turned left from the last
\* tile the trim kept.
C19_Witness ==
    /\ op = "update"
    /\ current_y_loop > 0
    /\ gen_log /= <<>>
    /\ gen_log[1].dir = 2
    /\ Len(tiles_coordinates) > Len(C19_Concat(gen_log, Len(gen_log)))

\* C20: every tile of the list after the first is the tile one row ahead of
\* the one stored before it, or the tile beside it in the same row.
C20_NoGap ==
    \A i \in 1..(Len(tiles_coordinates) - 1) :
        LET a == tiles_coordinates[i]
            b == tiles_coordinates[i + 1]
        IN  \/ b = << a[1], a[2] + 1 >>
            \/ b = << a[1] + 1, a[2] >>
            \/ b = << a[1] - 1, a[2] >>

\* Several rows in, the pre-fill trimmed away and a turn each way in the list.
C20_Witness ==
    /\ current_y_loop >= 3
    /\ tiles_coordinates[1][2] = current_y_loop
    /\ \E i \in 1..(Len(tiles_coordinates) - 1) :
          tiles_coordinates[i + 1][1] = tiles_coordinates[i][1] + 1
    /\ \E i \in 1..(Len(tiles_coordinates) - 1) :
          tiles_coordinates[i + 1][1] = tiles_coordinates[i][1] - 1

\* The scroll offsets C21 is checked at: within a row, 0 to 59 pixels forward;
\* sideways, on the start corridor, at its edges and off it.
C21_OffsetsY == { Px(0), Px(15), Px(30), Px(45), Px(59) }
C21_OffsetsX == { k * (width \div 20) : k \in { -8, -5, -4, -1, 0, 1, 4, 5, 8 } }

\* Some tile of the list, wherever it is stored, holds a ship vertex.
C21_SomeTileHoldsVertex(offset_x, offset_y) ==
    \E i \in DOMAIN tiles_coordinates :
        LET lo == get_tile_coordinates(tiles_coordinates[i][1], tiles_coordinates[i][2],
                                       current_y_loop, offset_x, offset_y)
            hi == get_tile_coordinates(tiles_coordinates[i][1] + 1, tiles_coordinates[i][2] + 1,
                                       current_y_loop, offset_x, offset_y)
        IN  \E v \in 1..3 :
                /\ lo[1] <= ship_coordinates[v][1] /\ ship_coordinates[v][1] <= hi[1]
                /\ lo[2] <= ship_coordinates[v][2] /\ ship_coordinates[v][2] <= hi[2]

\* C21: with the tile list and row counter of any reachable state, at the
\* state's own offsets and at every offset of the two sets above,
\* check_ship_collisions is true exactly when some tile of the whole list
\* holds a ship vertex.
C21_ScanSeesEverySupport ==
    /\ check_ship_collisions(tiles_coordinates, current_y_loop, current_offset_x,
                             current_offset_y)
          <=> C21_SomeTileHoldsVertex(current_offset_x, current_offset_y)
    /\ \A ox \in C21_OffsetsX, oy \in C21_OffsetsY :
          check_ship_collisions(tiles_coordinates, current_y_loop, ox, oy)
              <=> C21_SomeTileHoldsVertex(ox, oy)

\* Rows in, three quarters of a row scrolled: the tile of the current row no
\* longer reaches the ship and the tile of the next row is the one that
\* supports it.
C21_Witness ==
    /\ op = "update"
    /\ current_y_loop > 0
    /\ ~check_ship_collision_with_tile(tiles_coordinates[1][1], tiles_coordinates[1][2],
                                       current_y_loop, 0, Px(45))
    /\ tiles_coordinates[2][2] = current_y_loop + 1
    /\ check_ship_collisions(tiles_coordinates, current_y_loop, 0, Px(45))

\* A frame took the game to game over.
C22_Entry == op' = "update" /\ ~state_game_over /\ state_game_over'

\* C22: the frame that enters game over plays the impact sound, stops the
\* music, shows the overlay and schedules one timer of delay 3; a frame taken
\* in game over does none of these; no other step schedules a timer; a timer
\* that fires is gone, so the voice plays at most once per timer.
C22_GameOverEffectsOnce ==
    /\ [][ C22_Entry =>
             /\ sfx' = {"music1.stop", "gameover_impact.play"}
             /\ menu_opacity' = 1
             /\ timers' = Append(timers, [delay |-> 3, restarted |-> FALSE]) ]_vars
    /\ [][ (op' = "update" /\ state_game_over) =>
             /\ sfx' = {}
             /\ UNCHANGED << timers, menu_opacity, state_game_over >> ]_vars
    /\ [][ Len(timers') > Len(timers) => C22_Entry ]_vars
    /\ [][ "gameover_voice.play" \in sfx' =>
             /\ op' = "play_voice_game_over"
             /\ timers /= <<>>
             /\ timers' = Tail(timers) ]_vars

\* A second frame in game over, the timer of the transition still pending.
C22_Witness ==
    /\ op = "update"
    /\ state_game_over
    /\ sfx = {}
    /\ Len(timers) = 1
    /\ ~timers[1].restarted

\* The distance a running game scrolls in t/32 seconds.
C23_Distance(t) == (t * 60 * SPEED[1] * height) \div (32 * 100 * SPEED[2])

RECURSIVE C23_Advanced(_, _, _)
\* The tile lists k advance calls leave, one per row from y_loop + 1 on.
C23_Advanced(tiles, y_loop, k) ==
    IF k = 0 THEN { tiles }
    ELSE UNION { C23_Advanced(g.tiles, y_loop + 1, k - 1) :
                 g \in GenResults(tiles, y_loop + 1, NB_TILES) }

\* C23: between frames 0 <= offset_y < row spacing; a frame of a running game
\* raises the row counter by the whole row spacings its scroll crossed, keeps
\* the rest in offset_y, and leaves the tile list that one advance call per
\* crossed row leaves.
C23_WholeRowsCrossed ==
    /\ [](0 <= current_offset_y /\ current_offset_y < spacing_y)
    /\ [][ (op' = "update" /\ state_game_has_started /\ ~state_game_over) =>
             LET scrolled == current_offset_y + C23_Distance(run_clock' - run_clock)
                 k == current_y_loop' - current_y_loop
             IN  /\ k = scrolled \div spacing_y
                 /\ current_offset_y' = scrolled - k * spacing_y
                 /\ tiles_coordinates' \in C23_Advanced(tiles_coordinates, current_y_loop, k)
         ]_vars

\* A frame that crossed two rows at once.
C23_Witness ==
    /\ op = "update"
    /\ run_clock = 20
    /\ current_y_loop = 2
    /\ current_offset_y = 0

\* C24: every tile lies between the leftmost and the rightmost vertical line
\* drawn, the lines of indices -3 to 4: -3 <= column and column + 1 <= 4.
C24_TilesInsideGrid ==
    \A i \in DOMAIN tiles_coordinates :
        /\ -3 <= tiles_coordinates[i][1]
        /\ tiles_coordinates[i][1] + 1 <= 4

\* C25: the start/restart command is never issued while the game is Running:
\* the overlay is hidden then and a hidden overlay takes no touch.
C25_NoCommandWhileRunning ==
    [][ op' = "on_menu_button_pressed" =>
          /\ menu_opacity /= 0
          /\ ~(state_game_has_started /\ ~state_game_over) ]_vars

\* A touch steering a running game, the overlay hidden.
C25_Witness ==
    /\ op = "input"
    /\ state_game_has_started /\ ~state_game_over
    /\ menu_opacity = 0
    /\ current_speed_x = <<35, 10>>
    /\ current_y_loop > 0

\* The tiles the last pass found in the list.
C26_Kept ==
    Len(tiles_coordinates)
        - Len(C19_Concat(gen_log, Len(gen_log)))

\* C26: the extend loop of a pass runs NB_TILES minus the tiles it found
\* times, at most NB_TILES, whatever it appends meanwhile; the row-crossing
\* loop of a frame runs once per whole row spacing of the frame's scroll.
C26_LoopsBounded ==
    /\ [](Len(gen_log) <= NB_TILES)
    /\ [](gen_log /= <<>> => Len(gen_log) = NB_TILES - C26_Kept)
    /\ [][ op' = "update" =>
             /\ current_y_loop' >= current_y_loop
             /\ (current_y_loop' - current_y_loop) * spacing_y
                   <= current_offset_y + C23_Distance(run_clock' - run_clock) ]_vars

\* A pass of six iterations that appended eighteen tiles.
C26_Witness ==
    /\ Len(gen_log) = 6
    /\ Len(tiles_coordinates) = 28

\* C27: the list holds at least NB_TILES = 16 tiles, the entries update_tiles
\* reads, and at most 28.
C27_TileCountInRange ==
    /\ Len(tiles_coordinates) >= NB_TILES
    /\ Len(tiles_coordinates) >= 16
    /\ Len(tiles_coordinates) <= 28

\* A frame's pass that found fifteen tiles and filled the list to sixteen.
C27_Witness ==
    /\ op = "update"
    /\ current_y_loop > 0
    /\ Len(gen_log) = 1
    /\ Len(tiles_coordinates) = 16

\* C28: no coordinate is stored twice, and every row from the first tile's to
\* the last tile's holds one or two tiles.
C28_RowsOccupied ==
    /\ \A i, j \in DOMAIN tiles_coordinates :
          i /= j => tiles_coordinates[i] /= tiles_coordinates[j]
    /\ \A row \in tiles_coordinates[1][2] .. tiles_coordinates[Len(tiles_coordinates)][2] :
          Cardinality({ i \in DOMAIN tiles_coordinates : tiles_coordinates[i][2] = row })
              \in {1, 2}

\* Rows in, a list with a row of two tiles.
C28_Witness ==
    /\ current_y_loop > 0
    /\ tiles_coordinates[1][2] = current_y_loop
    /\ \E i \in 1..(Len(tiles_coordinates) - 1) :
          tiles_coordinates[i][2] = tiles_coordinates[i + 1][2]

\* The positions of the tiles of rows up to row + 1.
C29_Near(row) == { i \in DOMAIN tiles_coordinates : tiles_coordinates[i][2] <= row + 1 }

\* C29: at most four tiles have row <= y_loop + 1 and they lead the list, so
\* they are among its first NB_TILES entries; the same holds of the tiles from
\* any later row on, which is what a later trim leaves at the head.
C29_NearTilesLead ==
    /\ Cardinality(C29_Near(current_y_loop)) <= 4
    /\ C29_Near(current_y_loop) = 1..Cardinality(C29_Near(current_y_loop))
    /\ \A i \in C29_Near(current_y_loop) : i <= NB_TILES
    /\ \A row \in current_y_loop .. tiles_coordinates[Len(tiles_coordinates)][2] :
          Cardinality({ i \in C29_Near(row) : tiles_coordinates[i][2] >= row }) <= 4

\* Rows in: the tiles of the current and the next row, then a tile beyond.
C29_Witness ==
    /\ op = "update"
    /\ current_y_loop > 0
    /\ C29_Near(current_y_loop) = {1, 2}
    /\ tiles_coordinates[1][2] = current_y_loop

\* C30: across the row crossings of a frame, get_tile_coordinates of every
\* grid coordinate is the same with the row counter and offset_y the frame
\* leaves as with the row counter before and the offset before the wrap.
C30_CrossingKeepsCoordinates ==
    [][ (op' = "update" /\ current_y_loop' > current_y_loop) =>
          \A col \in -3..5, row \in current_y_loop..(current_y_loop + NB_TILES) :
              get_tile_coordinates(col, row, current_y_loop', current_offset_x,
                                   current_offset_y')
                  = get_tile_coordinates(col, row, current_y_loop, current_offset_x,
                                         current_offset_y'
                                           + (current_y_loop' - current_y_loop) * spacing_y)
      ]_vars

\* A frame that crossed a row from half a row in.
C30_Witness ==
    /\ op = "update"
    /\ current_y_loop = 2
    /\ current_offset_y = spacing_y \div 2
    /\ run_clock = 25

\* The corridor of C31: -1.85 * width <= offset <= 1.45 * width.
C31_InCorridor(offset_x) ==
    /\ -185 * width <= 100 * offset_x
    /\ 100 * offset_x <= 145 * width

\* Horizontal offsets from -2 * width to 2 * width in steps of width / 20.
C31_Offsets == { k * (width \div 20) : k \in -40..40 }

====
